---- MODULE Spec2Model ----
(***************************************************************************)
(* The WebSocket connection manager (backend/websocket_manager.py) and its *)
(* endpoint (backend/server.py, websocket_endpoint), as an asyncio program: *)
(* one task per connection, cooperative scheduling, a task runs until it   *)
(* reaches an await on I/O and only then may another task run.             *)
(* Spec is the server, the endpoint tasks interleaved, and SpecFair the     *)
(* server under the event loop's scheduling; SpecOneRoom is the server     *)
(* with three clients of one room; SpecApi is the manager under a single   *)
(* caller that awaits each call.                                           *)
(* The voice command system (backend/voice_commands.py) and the tutor      *)
(* agent (backend/api.py) share no state with the manager; SpecVoice and    *)
(* SpecTutor are theirs.                                                    *)
(***************************************************************************)
EXTENDS Naturals, FiniteSets, Sequences, TLC

NumConns == 3
NumEndpoints == 2
NumRooms == 2
NumUsers == 2
\* Inbound messages of a connection are numbered modulo MsgIds.
MsgIds == 2
\* An inbound message without user and content, and NumContents with both.
NumContents == 1

\* The connections; those of Endpoints are served by websocket_endpoint, each
\* in a task of its own, the others are known to a direct caller only.
Conns == 1..NumConns
Endpoints == 1..NumEndpoints
Rooms == 1..NumRooms
Users == 1..NumUsers
\* The values of "type" that handle_websocket_message does not recognise.
OtherTypes == {"pong", "none"}

\* Python's None: no exclude, no connection, no task running.
None == 0
\* The task of a direct caller of the manager's methods (a test, a handler).
Caller == NumConns + 1
Tasks == Conns \cup {Caller}

\* The user and content of an inbound message of type message; the user is
\* whatever the peer wrote, no identity of the registry.
Inbound ==
    {[user |-> None, content |-> None]}
        \cup {[user |-> k, content |-> k] : k \in 1..NumContents}

-----------------------------------------------------------------------------
(* Voice commands (backend/voice_commands.py)                              *)
(*                                                                         *)
(* A text is a sequence of symbols: a word (a run of letters, taken whole), *)
(* a space, an apostrophe, or a question mark for any other character that *)
(* is no word character.  Two words side by side are one longer word, which *)
(* is never a word of a pattern for the words texts are made of here.      *)
(* SpecVoice is the command system under a caller that composes a          *)
(* transcript, has it recognised and has commands executed.                *)

\* The longest transcript composed symbol by symbol.
MaxLen == 5

SP == " "
AP == "'"
QM == "?"
IsWord(sym) == sym \notin {SP, AP, QM}

\* The symbols transcripts are composed of.
Vocabulary == {SP, QM, "stop", "session", "end", "the", "lost"}

\* Whole transcripts a student says.
Scenarios ==
    {<<"Can", SP, "you", SP, "slow", SP, "down", SP, "please", QM>>,
     <<"I", AP, "m", SP, "totally", SP, "lost", SP, "here">>,
     <<SP, "You", AP, "re", SP, "going", SP, "too", SP, "slow", SP>>}

\* str.lower on the words that have upper-case letters.
Lower(sym) ==
    CASE sym = "Can" -> "can"
      [] sym = "I" -> "i"
      [] sym = "You" -> "you"
      [] OTHER -> sym
lower(text) == [i \in DOMAIN text |-> Lower(text[i])]

\* str.strip: the white space at both ends goes.
RECURSIVE lstrip(_)
lstrip(text) ==
    IF text # << >> /\ Head(text) = SP THEN lstrip(Tail(text)) ELSE text
RECURSIVE rstrip(_)
rstrip(text) ==
    IF text # << >> /\ text[Len(text)] = SP
    THEN rstrip(SubSeq(text, 1, Len(text) - 1))
    ELSE text
strip(text) == rstrip(lstrip(text))

\* The VoiceCommands of the dictionary, in the order of its keys; a pattern \b...\b is the set of
\* the texts it stands for, each beginning and ending with a word.
Catalog == <<
    [command |-> "pause", patterns |-> <<
        \* \b(pause|stop|wait)\b
        {<<"pause">>,
         <<"stop">>,
         <<"wait">>},
        \* \bhang on\b
        {<<"hang", " ", "on">>},
        \* \bgive me (a )?second\b
        {<<"give", " ", "me", " ", "a", " ", "second">>,
         <<"give", " ", "me", " ", "second">>}
    >>],
    [command |-> "resume", patterns |-> <<
        \* \b(resume|continue|go on)\b
        {<<"continue">>,
         <<"go", " ", "on">>,
         <<"resume">>},
        \* \blets? continue\b
        {<<"let", " ", "continue">>,
         <<"lets", " ", "continue">>},
        \* \bkeep going\b
        {<<"keep", " ", "going">>}
    >>],
    [command |-> "repeat", patterns |-> <<
        \* \b(repeat|say (that )?again)\b
        {<<"repeat">>,
         <<"say", " ", "again">>,
         <<"say", " ", "that", " ", "again">>},
        \* \bcan you repeat\b
        {<<"can", " ", "you", " ", "repeat">>},
        \* \bwhat did you say\b
        {<<"what", " ", "did", " ", "you", " ", "say">>},
        \* \bdidnt (catch|hear) that\b
        {<<"didnt", " ", "catch", " ", "that">>,
         <<"didnt", " ", "hear", " ", "that">>}
    >>],
    [command |-> "slow_down", patterns |-> <<
        \* \b(slow down|go slower|too fast)\b
        {<<"go", " ", "slower">>,
         <<"slow", " ", "down">>,
         <<"too", " ", "fast">>},
        \* \byou['']?re going too (fast|quick)\b
        {<<"you", "'", "re", " ", "going", " ", "too", " ", "fast">>,
         <<"you", "'", "re", " ", "going", " ", "too", " ", "quick">>,
         <<"youre", " ", "going", " ", "too", " ", "fast">>,
         <<"youre", " ", "going", " ", "too", " ", "quick">>},
        \* \bslower please\b
        {<<"slower", " ", "please">>}
    >>],
    [command |-> "speed_up", patterns |-> <<
        \* \b(speed up|go faster|too slow)\b
        {<<"go", " ", "faster">>,
         <<"speed", " ", "up">>,
         <<"too", " ", "slow">>},
        \* \bfaster please\b
        {<<"faster", " ", "please">>},
        \* \byou['']?re going too slow\b
        {<<"you", "'", "re", " ", "going", " ", "too", " ", "slow">>,
         <<"youre", " ", "going", " ", "too", " ", "slow">>}
    >>],
    [command |-> "example", patterns |-> <<
        \* \bgive (me )?(an )?example\b
        {<<"give", " ", "an", " ", "example">>,
         <<"give", " ", "example">>,
         <<"give", " ", "me", " ", "an", " ", "example">>,
         <<"give", " ", "me", " ", "example">>},
        \* \bshow (me )?(an )?example\b
        {<<"show", " ", "an", " ", "example">>,
         <<"show", " ", "example">>,
         <<"show", " ", "me", " ", "an", " ", "example">>,
         <<"show", " ", "me", " ", "example">>},
        \* \bcan (you|i) (have|get|see) (an )?example\b
        {<<"can", " ", "i", " ", "get", " ", "an", " ", "example">>,
         <<"can", " ", "i", " ", "get", " ", "example">>,
         <<"can", " ", "i", " ", "have", " ", "an", " ", "example">>,
         <<"can", " ", "i", " ", "have", " ", "example">>,
         <<"can", " ", "i", " ", "see", " ", "an", " ", "example">>,
         <<"can", " ", "i", " ", "see", " ", "example">>,
         <<"can", " ", "you", " ", "get", " ", "an", " ", "example">>,
         <<"can", " ", "you", " ", "get", " ", "example">>,
         <<"can", " ", "you", " ", "have", " ", "an", " ", "example">>,
         <<"can", " ", "you", " ", "have", " ", "example">>,
         <<"can", " ", "you", " ", "see", " ", "an", " ", "example">>,
         <<"can", " ", "you", " ", "see", " ", "example">>}
    >>],
    [command |-> "summary", patterns |-> <<
        \* \b(summarize|summary|recap)\b
        {<<"recap">>,
         <<"summarize">>,
         <<"summary">>},
        \* \bwhat did we (cover|learn)\b
        {<<"what", " ", "did", " ", "we", " ", "cover">>,
         <<"what", " ", "did", " ", "we", " ", "learn">>},
        \* \bsummarize (what|everything) we (covered|learned)\b
        {<<"summarize", " ", "everything", " ", "we", " ", "covered">>,
         <<"summarize", " ", "everything", " ", "we", " ", "learned">>,
         <<"summarize", " ", "what", " ", "we", " ", "covered">>,
         <<"summarize", " ", "what", " ", "we", " ", "learned">>}
    >>],
    [command |-> "next_topic", patterns |-> <<
        \* \b(next (topic|subject)|move on|skip)\b
        {<<"move", " ", "on">>,
         <<"next", " ", "subject">>,
         <<"next", " ", "topic">>,
         <<"skip">>},
        \* \bcan we move (on|forward)\b
        {<<"can", " ", "we", " ", "move", " ", "forward">>,
         <<"can", " ", "we", " ", "move", " ", "on">>},
        \* \blets? (do|try) (the )?next (one|topic)\b
        {<<"let", " ", "do", " ", "next", " ", "one">>,
         <<"let", " ", "do", " ", "next", " ", "topic">>,
         <<"let", " ", "do", " ", "the", " ", "next", " ", "one">>,
         <<"let", " ", "do", " ", "the", " ", "next", " ", "topic">>,
         <<"let", " ", "try", " ", "next", " ", "one">>,
         <<"let", " ", "try", " ", "next", " ", "topic">>,
         <<"let", " ", "try", " ", "the", " ", "next", " ", "one">>,
         <<"let", " ", "try", " ", "the", " ", "next", " ", "topic">>,
         <<"lets", " ", "do", " ", "next", " ", "one">>,
         <<"lets", " ", "do", " ", "next", " ", "topic">>,
         <<"lets", " ", "do", " ", "the", " ", "next", " ", "one">>,
         <<"lets", " ", "do", " ", "the", " ", "next", " ", "topic">>,
         <<"lets", " ", "try", " ", "next", " ", "one">>,
         <<"lets", " ", "try", " ", "next", " ", "topic">>,
         <<"lets", " ", "try", " ", "the", " ", "next", " ", "one">>,
         <<"lets", " ", "try", " ", "the", " ", "next", " ", "topic">>}
    >>],
    [command |-> "previous_topic", patterns |-> <<
        \* \b(previous|last|go back) (topic|subject)\b
        {<<"go", " ", "back", " ", "subject">>,
         <<"go", " ", "back", " ", "topic">>,
         <<"last", " ", "subject">>,
         <<"last", " ", "topic">>,
         <<"previous", " ", "subject">>,
         <<"previous", " ", "topic">>},
        \* \bgo back to (the )?(last|previous)\b
        {<<"go", " ", "back", " ", "to", " ", "last">>,
         <<"go", " ", "back", " ", "to", " ", "previous">>,
         <<"go", " ", "back", " ", "to", " ", "the", " ", "last">>,
         <<"go", " ", "back", " ", "to", " ", "the", " ", "previous">>}
    >>],
    [command |-> "confused", patterns |-> <<
        \* \b(im? |i am )?(confused|lost|dont understand)\b
        {<<"confused">>,
         <<"dont", " ", "understand">>,
         <<"i", " ", "am", " ", "confused">>,
         <<"i", " ", "am", " ", "dont", " ", "understand">>,
         <<"i", " ", "am", " ", "lost">>,
         <<"i", " ", "confused">>,
         <<"i", " ", "dont", " ", "understand">>,
         <<"i", " ", "lost">>,
         <<"im", " ", "confused">>,
         <<"im", " ", "dont", " ", "understand">>,
         <<"im", " ", "lost">>,
         <<"lost">>},
        \* \bthis (is |makes )no sense\b
        {<<"this", " ", "is", " ", "no", " ", "sense">>,
         <<"this", " ", "makes", " ", "no", " ", "sense">>},
        \* \bi dont get (it|this)\b
        {<<"i", " ", "dont", " ", "get", " ", "it">>,
         <<"i", " ", "dont", " ", "get", " ", "this">>}
    >>],
    [command |-> "clarify", patterns |-> <<
        \* \b(clarify|explain (again|more|better))\b
        {<<"clarify">>,
         <<"explain", " ", "again">>,
         <<"explain", " ", "better">>,
         <<"explain", " ", "more">>},
        \* \bcan you (clarify|elaborate)\b
        {<<"can", " ", "you", " ", "clarify">>,
         <<"can", " ", "you", " ", "elaborate">>},
        \* \bexplain (that|this) differently\b
        {<<"explain", " ", "that", " ", "differently">>,
         <<"explain", " ", "this", " ", "differently">>}
    >>],
    [command |-> "hint", patterns |-> <<
        \* \b(give (me )?a hint|need a hint)\b
        {<<"give", " ", "a", " ", "hint">>,
         <<"give", " ", "me", " ", "a", " ", "hint">>,
         <<"need", " ", "a", " ", "hint">>},
        \* \bcan (you|i) (have|get) a hint\b
        {<<"can", " ", "i", " ", "get", " ", "a", " ", "hint">>,
         <<"can", " ", "i", " ", "have", " ", "a", " ", "hint">>,
         <<"can", " ", "you", " ", "get", " ", "a", " ", "hint">>,
         <<"can", " ", "you", " ", "have", " ", "a", " ", "hint">>}
    >>],
    [command |-> "practice", patterns |-> <<
        \* \b(practice|quiz|test) (me|question)\b
        {<<"practice", " ", "me">>,
         <<"practice", " ", "question">>,
         <<"quiz", " ", "me">>,
         <<"quiz", " ", "question">>,
         <<"test", " ", "me">>,
         <<"test", " ", "question">>},
        \* \bgive me (a )?(practice |quiz )?question\b
        {<<"give", " ", "me", " ", "a", " ", "practice", " ", "question">>,
         <<"give", " ", "me", " ", "a", " ", "question">>,
         <<"give", " ", "me", " ", "a", " ", "quiz", " ", "question">>,
         <<"give", " ", "me", " ", "practice", " ", "question">>,
         <<"give", " ", "me", " ", "question">>,
         <<"give", " ", "me", " ", "quiz", " ", "question">>},
        \* \blets? practice\b
        {<<"let", " ", "practice">>,
         <<"lets", " ", "practice">>}
    >>],
    [command |-> "answer", patterns |-> <<
        \* \b(show|tell|give) (me )?(the )?answer\b
        {<<"give", " ", "answer">>,
         <<"give", " ", "me", " ", "answer">>,
         <<"give", " ", "me", " ", "the", " ", "answer">>,
         <<"give", " ", "the", " ", "answer">>,
         <<"show", " ", "answer">>,
         <<"show", " ", "me", " ", "answer">>,
         <<"show", " ", "me", " ", "the", " ", "answer">>,
         <<"show", " ", "the", " ", "answer">>,
         <<"tell", " ", "answer">>,
         <<"tell", " ", "me", " ", "answer">>,
         <<"tell", " ", "me", " ", "the", " ", "answer">>,
         <<"tell", " ", "the", " ", "answer">>},
        \* \bwhat['']?s the answer\b
        {<<"what", "'", "s", " ", "the", " ", "answer">>,
         <<"whats", " ", "the", " ", "answer">>},
        \* \bshow solution\b
        {<<"show", " ", "solution">>}
    >>],
    [command |-> "progress", patterns |-> <<
        \* \b(my |show )?(progress|stats|statistics)\b
        {<<"my", " ", "progress">>,
         <<"my", " ", "statistics">>,
         <<"my", " ", "stats">>,
         <<"progress">>,
         <<"show", " ", "progress">>,
         <<"show", " ", "statistics">>,
         <<"show", " ", "stats">>,
         <<"statistics">>,
         <<"stats">>},
        \* \bhow am i doing\b
        {<<"how", " ", "am", " ", "i", " ", "doing">>},
        \* \bwhat['']?s my (score|progress)\b
        {<<"what", "'", "s", " ", "my", " ", "progress">>,
         <<"what", "'", "s", " ", "my", " ", "score">>,
         <<"whats", " ", "my", " ", "progress">>,
         <<"whats", " ", "my", " ", "score">>}
    >>],
    [command |-> "end_session", patterns |-> <<
        \* \b(end|finish|stop) (the )?session\b
        {<<"end", " ", "session">>,
         <<"end", " ", "the", " ", "session">>,
         <<"finish", " ", "session">>,
         <<"finish", " ", "the", " ", "session">>,
         <<"stop", " ", "session">>,
         <<"stop", " ", "the", " ", "session">>},
        \* \b(im? |i am )done\b
        {<<"i", " ", "am", " ", "done">>,
         <<"i", " ", "done">>,
         <<"im", " ", "done">>},
        \* \blets? (finish|end|stop)\b
        {<<"let", " ", "end">>,
         <<"let", " ", "finish">>,
         <<"let", " ", "stop">>,
         <<"lets", " ", "end">>,
         <<"lets", " ", "finish">>,
         <<"lets", " ", "stop">>}
    >>]
>>

initialize_commands_short == [i \in 1..(Len(Catalog) - 1) |-> Catalog[i].command]

\* _initialize_commands returns the dictionary it built: its keys, in their
\* order.  The VoiceCommand of a key is never assigned to.
initialize_commands == [i \in DOMAIN Catalog |-> Catalog[i].command]

\* self.commands[command_name]
VoiceCommand(command_name) ==
    Catalog[CHOOSE i \in DOMAIN Catalog : Catalog[i].command = command_name]

\* Python's None as a command name, and the names of the catalog.
NoMatch == "None"
Names(cmds) == {cmds[i] : i \in DOMAIN cmds}
\* Names no command has, and the names a caller passes to execute_command.
UnknownNames == {"nonexistent_command", "Pause", NoMatch}
ExecNames == Names(initialize_commands) \cup UnknownNames

\* \b at position i of the text: a word on one side and none on the other.
boundary(text, i) ==
    LET before == i > 1 /\ IsWord(text[i - 1])
        after == i <= Len(text) /\ IsWord(text[i])
    IN  before # after

\* re.search of a pattern: a text of the pattern stands somewhere, between
\* two word boundaries.
re_search(pattern, text) ==
    \E i \in 1..Len(text) :
        /\ boundary(text, i)
        /\ \E alt \in pattern :
               /\ i + Len(alt) - 1 <= Len(text)
               /\ text[i] = alt[1]
               /\ SubSeq(text, i, i + Len(alt) - 1) = alt
               /\ boundary(text, i + Len(alt))

\* The commands with a pattern found in the text, by their place.
Hits(cmds, text_lower) ==
    {i \in DOMAIN cmds : \E j \in DOMAIN VoiceCommand(cmds[i]).patterns :
        re_search(VoiceCommand(cmds[i]).patterns[j], text_lower)}

\* The two loops of recognize_command from the i-th command on.
RECURSIVE recognize_from(_, _, _)
recognize_from(cmds, text_lower, i) ==
    IF i > Len(cmds) THEN NoMatch
    ELSE IF \E j \in DOMAIN VoiceCommand(cmds[i]).patterns :
                re_search(VoiceCommand(cmds[i]).patterns[j], text_lower)
         THEN cmds[i]
         ELSE recognize_from(cmds, text_lower, i + 1)

recognize_command_last(cmds, text) ==
    LET text_lower == strip(lower(text))
        hits == Hits(cmds, text_lower)
    IN  IF hits = {} THEN NoMatch
        ELSE cmds[CHOOSE i \in hits : \A k \in hits : k <= i]

recognize_command(cmds, text) ==
    LET text_lower == strip(lower(text))
    IN  recognize_from(cmds, text_lower, 1)

\* A context: none given, or a dictionary as the set of its items.
NoContext == [given |-> FALSE, items |-> {}]
Contexts ==
    {NoContext, [given |-> TRUE, items |-> {}],
     [given |-> TRUE, items |-> {<<"action", "end_session">>}]}

actions_slower_swapped ==
    [pause |-> [action |-> "pause_session",
                response |-> "Session paused. Say 'continue' when ready."],
     resume |-> [action |-> "resume_session", response |-> "Continuing..."],
     repeat |-> [action |-> "repeat_last", response |-> "Let me repeat that..."],
     slow_down |-> [action |-> "adjust_pace", params |-> [slower |-> FALSE],
                    response |-> "Slowing down..."],
     speed_up |-> [action |-> "adjust_pace", params |-> [slower |-> TRUE],
                   response |-> "Speeding up..."],
     example |-> [action |-> "provide_example", response |-> "Here's an example..."],
     summary |-> [action |-> "summarize",
                  response |-> "Let me summarize what we've covered..."],
     next_topic |-> [action |-> "next_topic",
                     response |-> "Moving to the next topic..."],
     previous_topic |-> [action |-> "previous_topic",
                         response |-> "Going back to the previous topic..."],
     confused |-> [action |-> "address_confusion",
                   response |-> "Let me explain this differently..."],
     clarify |-> [action |-> "clarify", response |-> "Let me clarify that..."],
     hint |-> [action |-> "give_hint", response |-> "Here's a hint..."],
     practice |-> [action |-> "generate_practice",
                   response |-> "Here's a practice question..."],
     answer |-> [action |-> "show_answer", response |-> "The answer is..."],
     progress |-> [action |-> "show_progress",
                   response |-> "Here's your progress..."],
     end_session |-> [action |-> "end_session",
                      response |-> "Ending session. Great work today!"]]

\* The dictionary execute_command builds on every call.
actions ==
    [pause |-> [action |-> "pause_session",
                response |-> "Session paused. Say 'continue' when ready."],
     resume |-> [action |-> "resume_session", response |-> "Continuing..."],
     repeat |-> [action |-> "repeat_last", response |-> "Let me repeat that..."],
     slow_down |-> [action |-> "adjust_pace", params |-> [slower |-> TRUE],
                    response |-> "Slowing down..."],
     speed_up |-> [action |-> "adjust_pace", params |-> [slower |-> FALSE],
                   response |-> "Speeding up..."],
     example |-> [action |-> "provide_example", response |-> "Here's an example..."],
     summary |-> [action |-> "summarize",
                  response |-> "Let me summarize what we've covered..."],
     next_topic |-> [action |-> "next_topic",
                     response |-> "Moving to the next topic..."],
     previous_topic |-> [action |-> "previous_topic",
                         response |-> "Going back to the previous topic..."],
     confused |-> [action |-> "address_confusion",
                   response |-> "Let me explain this differently..."],
     clarify |-> [action |-> "clarify", response |-> "Let me clarify that..."],
     hint |-> [action |-> "give_hint", response |-> "Here's a hint..."],
     practice |-> [action |-> "generate_practice",
                   response |-> "Here's a practice question..."],
     answer |-> [action |-> "show_answer", response |-> "The answer is..."],
     progress |-> [action |-> "show_progress",
                   response |-> "Here's your progress..."],
     end_session |-> [action |-> "end_session",
                      response |-> "Ending session. Great work today!"]]

\* The value of the f-string of an unknown name.
Unknown(command_name) == <<"Unknown command: ", command_name>>

\* actions.get(command_name, default)
Get(table, command_name) ==
    IF command_name \in DOMAIN table THEN table[command_name]
    ELSE [action |-> "unknown", response |-> "Command not implemented"]

execute_command_unguarded(cmds, command_name, context) ==
    [success |-> TRUE, command |-> command_name] @@ Get(actions, command_name)

execute_command_context(cmds, command_name, context) ==
    IF command_name \notin Names(cmds)
    THEN [success |-> FALSE, error |-> Unknown(command_name)]
    ELSE LET result == Get(actions, command_name)
             given == [k \in {item[1] : item \in context.items} |->
                          CHOOSE v \in {item[2] : item \in context.items} :
                              <<k, v>> \in context.items]
         IN  [success |-> TRUE, command |-> command_name] @@ given @@ result

\* execute_command: the dictionary returned; context is not read.
execute_command(cmds, command_name, context) ==
    IF command_name \notin Names(cmds)
    THEN [success |-> FALSE, error |-> Unknown(command_name)]
    ELSE LET result == Get(actions, command_name)
         IN  [success |-> TRUE, command |-> command_name] @@ result

-----------------------------------------------------------------------------
(* The tutor agent (backend/api.py, TutorAgent)                            *)
(* SpecTutor is one TutorAgent whose tools are called one after another.   *)

\* The calls of move_to_next_subtopic and of check_understanding a run makes.
MaxMoves == 3
MaxQuestions == 2

\* student_understanding_score is counted in tenths: 1 is FullScore.
FullScore == 10

\* The subtopics a call names; the empty string is a str as well.
Subtopics == {"", "Topic 1", "Topic 2"}

\* Subtopic(id=0, topic="", subtopic=subtopic, content="")
Subtopic(subtopic) == [id |-> 0, topic |-> "", subtopic |-> subtopic, content |-> ""]
\* f"Moved to subtopic: {subtopic}"
Moved(subtopic) == <<"Moved to subtopic: ", subtopic>>

\* An Optional is the sequence of what it holds: << >> is None.
has_subtopic_named(current) == current # << >> /\ current[1].subtopic # ""

\* has_subtopic: self.current_subtopic is not None
has_subtopic(current) == current # << >>

-----------------------------------------------------------------------------
VARIABLES
    active_connections, \* ConnectionManager.active_connections: room -> set of connections
    user_connections,   \* ConnectionManager.user_connections: identity -> connection
    path,               \* the (room_name, user_identity) a connection was connected with
    pc,                 \* where each task stands
    frame,              \* the broadcast a task is in: its loop variables and set iterator
    running,            \* the task that holds the event loop (None: all are suspended)
    cause,              \* why disconnect was called for a connection, if it was
    lastSend,           \* the send_json issued by the step that led here, if any
    lastCall,           \* the manager's method that returned or raised in that step, if any
    closed,             \* the connections whose channel is closed: their receive raises
    seq,                \* the number of the inbound message a connection's task handled last
    commands,           \* VoiceCommandSystem.commands: the keys of the catalog, in their order
    text,               \* the transcript the caller of the command system holds
    recognized,         \* what recognize_command returned last
    result,             \* the dictionary execute_command returned last, in the caller's hands
    invoked,            \* the call of the command system made in the step that led here
    current_subtopic,   \* TutorAgent.current_subtopic: << >> for None, else <<Subtopic>>
    conversation_history,           \* TutorAgent.conversation_history
    student_understanding_score,    \* TutorAgent.student_understanding_score, in tenths
    teaching_pace,      \* TutorAgent.teaching_pace
    topics_covered,     \* TutorAgent.topics_covered
    questions_asked,    \* TutorAgent.questions_asked
    moves               \* the subtopics move_to_next_subtopic was called with, in call order

managerVars == <<active_connections, user_connections, path, pc, frame, running,
                 cause, lastSend, lastCall, closed, seq>>
voiceVars == <<commands, text, recognized, result, invoked>>
tutorVars == <<current_subtopic, conversation_history, student_understanding_score,
               teaching_pace, topics_covered, questions_asked, moves>>
vars == <<managerVars, voiceVars, tutorVars>>

NoPath == [room |-> None, user |-> None]

\* The fields of a message besides its type and timestamp; id is the number of
\* the inbound message it was built from.
NoBody == [user |-> None, content |-> None, participants |-> None, room |-> None,
           status |-> "none", id |-> None]

NoFrame == [op |-> "none", ctx |-> "none", msg |-> "none", body |-> NoBody,
            room |-> None,
            excl |-> None, live |-> FALSE, used |-> None, todo |-> {},
            disconnected |-> {}, failed |-> {}, sent |-> {}, n |-> None,
            start |-> {}, changed |-> {}, rtodo |-> {}, dused |-> None]

NoSend == [by |-> None, to |-> None, msg |-> "none", body |-> NoBody,
           via |-> "none", ok |-> TRUE, excl |-> None]

NoCall == [by |-> None, op |-> "none", msg |-> "none", body |-> NoBody,
           ws |-> None, user |-> None,
           room |-> None, excl |-> None, start |-> {}, failed |-> {}, sent |-> {},
           n |-> None, changed |-> {}, raised |-> "none", again |-> FALSE]

\* Nothing returned, nothing called.
NoResult == [success |-> FALSE, error |-> << >>]
NoInvoke == [op |-> "none", command_name |-> NoMatch, context |-> NoContext,
             mutated |-> FALSE]

Init ==
    /\ active_connections = << >>
    /\ user_connections = << >>
    /\ path = [c \in Conns |-> NoPath]
    /\ pc = [t \in Tasks |-> IF t = Caller THEN "ready" ELSE "idle"]
    /\ frame = [t \in Tasks |-> NoFrame]
    /\ running = None
    /\ cause = [c \in Conns |-> "none"]
    /\ lastSend = NoSend
    /\ lastCall = NoCall
    /\ closed = {}
    /\ seq = [c \in Conns |-> 0]
    /\ commands = initialize_commands
    /\ text = << >>
    /\ recognized = NoMatch
    /\ result = NoResult
    /\ invoked = NoInvoke
    /\ current_subtopic = << >>
    /\ conversation_history = << >>
    /\ student_understanding_score = 5
    /\ teaching_pace = "normal"
    /\ topics_covered = << >>
    /\ questions_asked = 0
    /\ moves = << >>

----------------------------------------------------------------------------
(* Dictionaries *)

Has(d, k) == k \in DOMAIN d
Put(d, k, v) == [x \in DOMAIN d \cup {k} |-> IF x = k THEN v ELSE d[x]]
Del(d, k) == [x \in DOMAIN d \ {k} |-> d[x]]

\* get_room_participants, on the registry ac
room_participants(ac, room_name) ==
    IF ~Has(ac, room_name) THEN 0 ELSE Cardinality(ac[room_name])

\* get_room_participants
get_room_participants(room_name) == room_participants(active_connections, room_name)

\* get_all_rooms
get_all_rooms == DOMAIN active_connections

----------------------------------------------------------------------------
(* connect and disconnect: what they do to the two dictionaries *)

\* A connect that adds the connection to every room there is.
connect_rooms_every(ac, websocket, room_name) ==
    [r \in DOMAIN ac \cup {room_name} |->
        IF Has(ac, r) THEN ac[r] \cup {websocket} ELSE {websocket}]

\* connect, lines 27-29
connect_rooms(ac, websocket, room_name) ==
    IF ~Has(ac, room_name) THEN Put(ac, room_name, {websocket})
    ELSE [ac EXCEPT ![room_name] = @ \cup {websocket}]

\* A connect that keeps an identity's first connection.
connect_users_first(uc, websocket, user_identity) ==
    IF Has(uc, user_identity) THEN uc ELSE Put(uc, user_identity, websocket)

\* connect, line 32
connect_users(uc, websocket, user_identity) == Put(uc, user_identity, websocket)

\* A disconnect that does nothing for a websocket the room's set does not hold.
disconnect_rooms_if_member(ac, websocket, room_name) ==
    IF Has(ac, room_name) /\ websocket \in ac[room_name]
    THEN LET s == ac[room_name] \ {websocket}
         IN  IF s = {} THEN Del(ac, room_name) ELSE [ac EXCEPT ![room_name] = s]
    ELSE ac

\* A disconnect that tests for the last member before it discards.
disconnect_rooms_test_first(ac, websocket, room_name) ==
    IF Has(ac, room_name)
    THEN IF Cardinality(ac[room_name]) <= 1 THEN Del(ac, room_name)
         ELSE [ac EXCEPT ![room_name] = @ \ {websocket}]
    ELSE ac

\* disconnect, lines 50-53
disconnect_rooms(ac, websocket, room_name) ==
    IF Has(ac, room_name)
    THEN LET s == ac[room_name] \ {websocket}
         IN  IF s = {} THEN Del(ac, room_name) ELSE [ac EXCEPT ![room_name] = s]
    ELSE ac

\* disconnect, lines 56-57
disconnect_users(uc, websocket, user_identity) ==
    IF Has(uc, user_identity) THEN Del(uc, user_identity) ELSE uc

----------------------------------------------------------------------------
(* The set iterators of the broadcasts in progress.  broadcast_to_room     *)
(* iterates the room's set itself, not a copy, and awaits inside the loop: *)
(* the set can change under the iterator.  A Python set iterator raises    *)
(* RuntimeError at its next step when the set's size differs from the size *)
(* at its creation; when the size is the same again, a removed element is  *)
(* no longer yielded and an added element is yielded or not, depending on  *)
(* the slot it hashed to.  A deleted room's set object stays empty.        *)

OnRoom(f, r) == f.op # "none" /\ f.live /\ f.room = r

\* The frames after the dictionary went from old to new; the tasks in seen are
\* those whose iterator is still before the slot of an added connection.  changed
\* collects the connections added to or removed from the set under the iterator.
\* (The table of a set that has held fewer than five elements is never rebuilt,
\* so an element that was yielded is not yielded again.)
Track(fr, old, new, seen) ==
    [t \in Tasks |->
        LET f == fr[t] IN
        IF f.op = "none" \/ ~f.live \/ ~Has(old, f.room) THEN f
        ELSE IF ~Has(new, f.room)
             THEN [f EXCEPT !.live = FALSE, !.todo = {},
                            !.changed = @ \cup old[f.room]]
        ELSE IF new[f.room] = old[f.room] THEN f
        ELSE [f EXCEPT !.todo = (@ \cap new[f.room]) \cup
                                    (IF t \in seen THEN new[f.room] \ old[f.room] ELSE {}),
                       !.changed = @ \cup (new[f.room] \ old[f.room])
                                     \cup (old[f.room] \ new[f.room])]]

\* The tasks iterating room r's set.
Iterators(fr, r) == {t \in Tasks : OnRoom(fr[t], r)}

----------------------------------------------------------------------------
(* The manager's methods.  A task t runs them; ac and fr are the registry  *)
(* and the frames as the step has left them so far.                        *)

CanRun(t) == running \in {None, t}

\* send_personal_message, lines 61-66: one send_json; a failure is logged and
\* swallowed.
send_personal_message(t, msg, body, websocket) ==
    \E ok \in BOOLEAN :
        lastSend' = [by |-> t, to |-> websocket, msg |-> msg, body |-> body,
                     via |-> "send_personal_message", ok |-> ok, excl |-> None]

\* A connect that sends its welcome before it registers the connection.
connect_welcome_first(t, websocket, room_name, user_identity) ==
    /\ UNCHANGED <<active_connections, user_connections, frame>>
    /\ send_personal_message(t, "connection",
                             [NoBody EXCEPT !.status = "connected",
                                            !.room = room_name],
                             websocket)

\* connect, lines 27-45, after the await of websocket.accept() has returned.
connect(t, websocket, room_name, user_identity) ==
    /\ active_connections' = connect_rooms(active_connections, websocket, room_name)
    /\ user_connections' = connect_users(user_connections, websocket, user_identity)
    /\ \E seen \in SUBSET Iterators(frame, room_name) :
           frame' = Track(frame, active_connections, active_connections', seen)
    /\ send_personal_message(t, "connection",
                             [NoBody EXCEPT !.status = "connected",
                                            !.room = room_name],
                             websocket)

\* disconnect, lines 50-57.
disconnect(websocket, room_name, user_identity) ==
    /\ active_connections' = disconnect_rooms(active_connections, websocket, room_name)
    /\ user_connections' = disconnect_users(user_connections, websocket, user_identity)

\* An endpoint that connects again when its user_left broadcast is over.
AfterReturn_reconnect(ctx) ==
    CASE ctx \in {"join", "msg"} -> "recv"
      [] ctx = "leave" -> "connect"
      [] OTHER -> "ready"

\* Where the caller of a broadcast goes on when it returns: the endpoint to its
\* receive loop (lines 395-396) or to its end (line 411), the direct caller to
\* its next call.
AfterReturn(ctx) ==
    CASE ctx \in {"join", "msg"} -> "recv"
      [] ctx = "leave" -> "done"
      [] OTHER -> "ready"

\* What a broadcast did, when it returns or raises.
CallOf(t, f, raised) ==
    [NoCall EXCEPT !.by = t, !.op = f.op, !.msg = f.msg, !.body = f.body,
                   !.room = f.room,
                   !.excl = f.excl, !.start = f.start, !.failed = f.failed,
                   !.sent = f.sent, !.n = f.n, !.changed = f.changed,
                   !.raised = raised]

NewFrame(op, ctx, msg, body, room_name, exclude, members) ==
    [NoFrame EXCEPT !.op = op, !.ctx = ctx, !.msg = msg, !.body = body,
                    !.room = room_name,
                    !.excl = exclude, !.live = TRUE,
                    !.used = Cardinality(members), !.todo = members,
                    !.n = 0, !.start = members]

\* broadcast_to_room, lines 75-80: the early return, or the iterator over the
\* room's set; the task goes on to the loop without suspending.
broadcast_to_room(t, ac, fr, room_name, msg, body, exclude, ctx) ==
    IF ~Has(ac, room_name)
    THEN /\ frame' = [fr EXCEPT ![t] = NoFrame]
         /\ pc' = [pc EXCEPT ![t] = AfterReturn(ctx)]
         /\ running' = None
         /\ lastCall' = CallOf(t, [NewFrame("room", ctx, msg, body, room_name,
                                            exclude, {})
                                      EXCEPT !.live = FALSE], "none")
    ELSE /\ frame' = [fr EXCEPT ![t] =
                         NewFrame("room", ctx, msg, body, room_name, exclude,
                                  ac[room_name])]
         /\ pc' = [pc EXCEPT ![t] = "iter"]
         /\ running' = t
         /\ lastCall' = NoCall

\* The set iterator's check at each step: the set is not the size it was.
SetChanged(f) ==
    IF f.live THEN Cardinality(active_connections[f.room]) # f.used ELSE TRUE

\* Lines 80-90: the next connection is the excluded one; the loop continues.
IterSkip(t) ==
    /\ CanRun(t) /\ pc[t] = "iter"
    /\ ~SetChanged(frame[t])
    /\ frame[t].excl \in frame[t].todo
    /\ frame' = [frame EXCEPT ![t].todo = @ \ {frame[t].excl}]
    /\ running' = t
    /\ lastSend' = NoSend /\ lastCall' = NoCall
    /\ UNCHANGED <<active_connections, user_connections, path, pc, cause>>
    /\ UNCHANGED <<closed, seq>>
    /\ UNCHANGED <<voiceVars, tutorVars>>

\* A broadcast whose loop ends at the first failed send.
Sent_abort(f, connection, ok) ==
    [f EXCEPT !.todo = IF ok THEN @ \ {connection} ELSE {},
              !.sent = @ \cup {connection},
              !.n = @ + 1,
              !.failed = IF ok THEN @ ELSE @ \cup {connection},
              !.disconnected = IF ok \/ f.op = "all" THEN @ ELSE @ \cup {connection}]

\* The frame after the send to connection is over (lines 84-90, 99-102): a
\* failed send adds the connection to disconnected in broadcast_to_room, and is
\* only logged in broadcast_all.
Sent(f, connection, ok) ==
    [f EXCEPT !.todo = @ \ {connection},
              !.sent = @ \cup {connection},
              !.n = @ + 1,
              !.failed = IF ok THEN @ ELSE @ \cup {connection},
              !.disconnected = IF ok \/ f.op = "all" THEN @ ELSE @ \cup {connection}]

\* A loop over the connections of every room.
IterSend_any_room(t) ==
    /\ CanRun(t) /\ pc[t] = "iter"
    /\ ~SetChanged(frame[t])
    /\ \E connection \in
              UNION {active_connections[r] : r \in DOMAIN active_connections}
                  \ {frame[t].excl},
          ok \in BOOLEAN :
        /\ frame' = [frame EXCEPT ![t] = Sent(@, connection, ok)]
        /\ lastSend' = [by |-> t, to |-> connection, msg |-> frame[t].msg,
                        body |-> frame[t].body,
                        via |-> IF frame[t].op = "all" THEN "broadcast_all"
                                ELSE "broadcast_to_room",
                        ok |-> ok, excl |-> frame[t].excl]
    /\ running' = None
    /\ lastCall' = NoCall
    /\ UNCHANGED <<active_connections, user_connections, path, pc, cause>>
    /\ UNCHANGED <<closed, seq>>
    /\ UNCHANGED <<voiceVars, tutorVars>>

\* A loop that sends to the excluded connection as to any other.
IterSend_all(t) ==
    /\ CanRun(t) /\ pc[t] = "iter"
    /\ ~SetChanged(frame[t])
    /\ \E connection \in frame[t].todo, ok \in BOOLEAN :
        /\ frame' = [frame EXCEPT ![t] = Sent(@, connection, ok)]
        /\ lastSend' = [by |-> t, to |-> connection, msg |-> frame[t].msg,
                        body |-> frame[t].body,
                        via |-> IF frame[t].op = "all" THEN "broadcast_all"
                                ELSE "broadcast_to_room",
                        ok |-> ok, excl |-> frame[t].excl]
    /\ running' = None
    /\ lastCall' = NoCall
    /\ UNCHANGED <<active_connections, user_connections, path, pc, cause>>
    /\ UNCHANGED <<closed, seq>>
    /\ UNCHANGED <<voiceVars, tutorVars>>

\* Lines 80-90 and 98-102: the next connection is sent the message, and the task
\* is suspended in the await of send_json.
IterSend(t) ==
    /\ CanRun(t) /\ pc[t] = "iter"
    /\ ~SetChanged(frame[t])
    /\ \E connection \in frame[t].todo \ {frame[t].excl}, ok \in BOOLEAN :
        /\ frame' = [frame EXCEPT ![t] = Sent(@, connection, ok)]
        /\ lastSend' = [by |-> t, to |-> connection, msg |-> frame[t].msg,
                        body |-> frame[t].body,
                        via |-> IF frame[t].op = "all" THEN "broadcast_all"
                                ELSE "broadcast_to_room",
                        ok |-> ok, excl |-> frame[t].excl]
    /\ running' = None
    /\ lastCall' = NoCall
    /\ UNCHANGED <<active_connections, user_connections, path, pc, cause>>
    /\ UNCHANGED <<closed, seq>>
    /\ UNCHANGED <<voiceVars, tutorVars>>

\* A broadcast that forgets its cleanup.
cleanup_none(ac, room_name, disconnected) == ac

\* Line 93: the lazy cleanup.
cleanup(ac, room_name, disconnected) ==
    [ac EXCEPT ![room_name] = @ \ disconnected]

\* The loop of broadcast_to_room is over: line 93 and the return.
IterDone(t) ==
    /\ CanRun(t) /\ pc[t] = "iter"
    /\ frame[t].op = "room"
    /\ ~SetChanged(frame[t])
    /\ frame[t].todo = {}
    /\ active_connections' =
           cleanup(active_connections, frame[t].room, frame[t].disconnected)
    /\ frame' = Track([frame EXCEPT ![t] = NoFrame],
                      active_connections, active_connections', {})
    /\ lastCall' = CallOf(t, frame[t], "none")
    /\ pc' = [pc EXCEPT ![t] = AfterReturn(frame[t].ctx)]
    /\ running' = None
    /\ lastSend' = NoSend
    /\ UNCHANGED <<user_connections, path, cause>>
    /\ UNCHANGED <<closed, seq>>
    /\ UNCHANGED <<voiceVars, tutorVars>>

\* The set changed size under the iterator: RuntimeError leaves
\* broadcast_to_room at line 80, before its cleanup.  Raised inside the
\* endpoint's try it is caught at lines 412-414, which disconnect the
\* connection; raised inside the handler of WebSocketDisconnect (lines 403-411)
\* it ends the endpoint's task.
IterRaise(t) ==
    /\ CanRun(t) /\ pc[t] = "iter"
    /\ SetChanged(frame[t])
    /\ lastCall' = CallOf(t, frame[t], "RuntimeError")
    /\ running' = None
    /\ IF frame[t].ctx \in {"join", "msg"}
       THEN /\ disconnect(t, path[t].room, path[t].user)
            /\ frame' = Track([frame EXCEPT ![t] = NoFrame],
                              active_connections, active_connections', {})
            /\ pc' = [pc EXCEPT ![t] = "done"]
            /\ cause' = [cause EXCEPT ![t] = "broadcast_error"]
       ELSE /\ frame' = [frame EXCEPT ![t] = NoFrame]
            /\ pc' = [pc EXCEPT ![t] = IF frame[t].ctx = "leave" THEN "crashed"
                                       ELSE "ready"]
            /\ UNCHANGED <<active_connections, user_connections, cause>>
    /\ lastSend' = NoSend
    /\ UNCHANGED path
    /\ UNCHANGED <<closed, seq>>
    /\ UNCHANGED <<voiceVars, tutorVars>>

----------------------------------------------------------------------------
(* websocket_endpoint, one task per connection *)

\* Connections, rooms and identities are interchangeable: they are numbered in
\* the order in which they first appear.
InOrder(c, room_name, user_identity) ==
    /\ \A d \in Conns : d < c => path[d] # NoPath
    /\ \A r \in Rooms : r < room_name => \E d \in Conns : path[d].room = r
    /\ \A u \in Users : u < user_identity => \E d \in Conns : path[d].user = u

\* Line 379, up to the await of websocket.accept() at line 24; the handshake is
\* taken to succeed (a failed one registers nothing).
Accept(c, room_name, user_identity) ==
    /\ running = None /\ pc[c] = "idle" /\ path[c] = NoPath
    /\ InOrder(c, room_name, user_identity)
    /\ path' = [path EXCEPT ![c] = [room |-> room_name, user |-> user_identity]]
    /\ pc' = [pc EXCEPT ![c] = "connect"]
    /\ lastSend' = NoSend /\ lastCall' = NoCall
    /\ UNCHANGED <<active_connections, user_connections, frame, running, cause>>
    /\ UNCHANGED <<closed, seq>>
    /\ UNCHANGED <<voiceVars, tutorVars>>

\* connect after the accept, up to the await of the welcome's send_json.
Register(c) ==
    /\ running = None /\ pc[c] = "connect"
    /\ connect(c, c, path[c].room, path[c].user)
    /\ pc' = [pc EXCEPT ![c] = "join"]
    /\ lastCall' = [NoCall EXCEPT !.by = c, !.op = "connect", !.ws = c,
                                  !.room = path[c].room, !.user = path[c].user]
    /\ UNCHANGED <<path, running, cause>>
    /\ UNCHANGED <<closed, seq>>
    /\ UNCHANGED <<voiceVars, tutorVars>>

\* Lines 383-392: the user_joined broadcast, the joiner excluded.
Join(c) ==
    /\ running = None /\ pc[c] = "join"
    /\ broadcast_to_room(c, active_connections, frame, path[c].room,
                         "user_joined",
                         [NoBody EXCEPT !.user = path[c].user,
                                        !.participants =
                                            get_room_participants(path[c].room)],
                         c, "join")
    /\ lastSend' = NoSend
    /\ UNCHANGED <<active_connections, user_connections, path, cause>>
    /\ UNCHANGED <<closed, seq>>
    /\ UNCHANGED <<voiceVars, tutorVars>>

\* The peer closes the channel of a registered connection, or an error closes
\* it: the connection's next receive_json raises WebSocketDisconnect.
Close(c) ==
    /\ running = None
    /\ pc[c] \in {"join", "recv", "iter"}
    /\ c \notin closed
    /\ closed' = closed \cup {c}
    /\ lastSend' = NoSend /\ lastCall' = NoCall
    /\ UNCHANGED <<active_connections, user_connections, path, pc, frame, running,
                   cause, seq>>
    /\ UNCHANGED <<voiceVars, tutorVars>>

\* What handle_websocket_message was called with (line 134).
Handled(c, type) ==
    [NoCall EXCEPT !.by = c, !.op = "handle", !.msg = type, !.ws = c,
                   !.room = path[c].room]

\* A ping answered through the identity index, as send_to_user would.
ReceivePing_to_user(c) ==
    /\ running = None /\ pc[c] = "recv" /\ c \notin closed
    /\ IF Has(user_connections, path[c].user)
       THEN send_personal_message(c, "pong", NoBody, user_connections[path[c].user])
       ELSE lastSend' = NoSend
    /\ lastCall' = Handled(c, "ping")
    /\ UNCHANGED <<active_connections, user_connections, path, pc, frame, running,
                   cause, closed, seq>>
    /\ UNCHANGED <<voiceVars, tutorVars>>

\* Lines 396-397 with handle_websocket_message, lines 138-143: a ping is
\* answered with a pong to the sender.
ReceivePing(c) ==
    /\ running = None /\ pc[c] = "recv" /\ c \notin closed
    /\ send_personal_message(c, "pong", NoBody, c)
    /\ lastCall' = Handled(c, "ping")
    /\ UNCHANGED <<active_connections, user_connections, path, pc, frame, running,
                   cause, closed, seq>>
    /\ UNCHANGED <<voiceVars, tutorVars>>

\* A receive loop that does not await its handler: the next message is taken
\* while the broadcast of the one before is still sending.
ReceiveMessage_no_await(c) ==
    /\ running = None /\ c \notin closed
    /\ pc[c] = "recv" \/ (pc[c] = "iter" /\ frame[c].ctx = "msg")
    /\ seq' = [seq EXCEPT ![c] = (@ + 1) % MsgIds]
    /\ IF pc[c] = "recv"
       THEN \E data \in Inbound :
               broadcast_to_room(c, active_connections, frame, path[c].room,
                                 "message",
                                 [NoBody EXCEPT !.user = data.user,
                                                !.content = data.content,
                                                !.id = seq'[c]],
                                 c, "msg")
       ELSE lastCall' = NoCall /\ UNCHANGED <<frame, pc, running>>
    /\ lastSend' = NoSend
    /\ UNCHANGED <<active_connections, user_connections, path, cause, closed>>
    /\ UNCHANGED <<voiceVars, tutorVars>>

\* Lines 396-397 with handle_websocket_message, lines 145-156: a message is
\* broadcast to the room, the sender excluded, with the user and content of
\* the inbound message (None when it has none).
ReceiveMessage(c) ==
    /\ running = None /\ pc[c] = "recv" /\ c \notin closed
    /\ seq' = [seq EXCEPT ![c] = (@ + 1) % MsgIds]
    /\ \E data \in Inbound :
          broadcast_to_room(c, active_connections, frame, path[c].room,
                            "message",
                            [NoBody EXCEPT !.user = data.user,
                                           !.content = data.content,
                                           !.id = seq'[c]],
                            c, "msg")
    /\ lastSend' = NoSend
    /\ UNCHANGED <<active_connections, user_connections, path, cause, closed>>
    /\ UNCHANGED <<voiceVars, tutorVars>>

\* Lines 396-397 with handle_websocket_message, lines 158-159: another type
\* (a pong, or none at all) is logged.
ReceiveUnknown(c) ==
    /\ running = None /\ pc[c] = "recv" /\ c \notin closed
    /\ lastSend' = NoSend
    /\ \E type \in OtherTypes : lastCall' = Handled(c, type)
    /\ UNCHANGED <<active_connections, user_connections, path, pc, frame, running,
                   cause, closed, seq>>
    /\ UNCHANGED <<voiceVars, tutorVars>>

\* A handler of WebSocketDisconnect that broadcasts without the disconnect.
ReceiveDisconnect_no_disconnect(c) ==
    /\ running = None /\ pc[c] = "recv" /\ c \in closed
    /\ cause' = [cause EXCEPT ![c] = "WebSocketDisconnect"]
    /\ broadcast_to_room(c, active_connections, frame, path[c].room, "user_left",
                         [NoBody EXCEPT !.user = path[c].user,
                                        !.participants =
                                            get_room_participants(path[c].room)],
                         None, "leave")
    /\ lastSend' = NoSend
    /\ UNCHANGED <<active_connections, user_connections, path, closed, seq>>
    /\ UNCHANGED <<voiceVars, tutorVars>>

\* Lines 399-411: receive_json raises WebSocketDisconnect; disconnect, then the
\* user_left broadcast, nobody excluded.
ReceiveDisconnect(c) ==
    /\ running = None /\ pc[c] = "recv" /\ c \in closed
    /\ disconnect(c, path[c].room, path[c].user)
    /\ cause' = [cause EXCEPT ![c] = "WebSocketDisconnect"]
    /\ broadcast_to_room(c, active_connections',
                         Track(frame, active_connections, active_connections', {}),
                         path[c].room, "user_left",
                         [NoBody EXCEPT !.user = path[c].user,
                                        !.participants =
                                            room_participants(active_connections',
                                                              path[c].room)],
                         None, "leave")
    /\ lastSend' = NoSend
    /\ UNCHANGED <<path, closed, seq>>
    /\ UNCHANGED <<voiceVars, tutorVars>>

\* Lines 412-414: the loop raises another exception (receive_json on a frame
\* that is not JSON, data.get on a frame that is no object); disconnect.
ReceiveError(c) ==
    /\ running = None /\ pc[c] = "recv" /\ c \notin closed
    /\ disconnect(c, path[c].room, path[c].user)
    /\ frame' = Track(frame, active_connections, active_connections', {})
    /\ cause' = [cause EXCEPT ![c] = "receive_error"]
    /\ pc' = [pc EXCEPT ![c] = "done"]
    /\ lastSend' = NoSend /\ lastCall' = NoCall
    /\ UNCHANGED <<path, running, closed, seq>>
    /\ UNCHANGED <<voiceVars, tutorVars>>

Next ==
    \/ \E c \in Endpoints, r \in Rooms, u \in Users : Accept(c, r, u)
    \/ \E c \in Endpoints : Register(c)
    \/ \E c \in Endpoints : Join(c)
    \/ \E c \in Endpoints : Close(c)
    \/ \E c \in Endpoints : ReceivePing(c)
    \/ \E c \in Endpoints : ReceiveMessage(c)
    \/ \E c \in Endpoints : ReceiveUnknown(c)
    \/ \E c \in Endpoints : ReceiveDisconnect(c)
    \/ \E c \in Endpoints : ReceiveError(c)
    \/ \E c \in Endpoints : IterSkip(c)
    \/ \E c \in Endpoints : IterSend(c)
    \/ \E c \in Endpoints : IterDone(c)
    \/ \E c \in Endpoints : IterRaise(c)

\* The server: the endpoint tasks of the connections, interleaved at their awaits.
Spec == Init /\ [][Next]_vars

\* The steps of connection c's task that wait for nothing from its peer: the
\* task is ready (its awaited accept or send_json is over, or its receive_json
\* has a closed channel to report) and runs when the event loop schedules it.
Resume(c) ==
    \/ Register(c)
    \/ Join(c)
    \/ IterSkip(c)
    \/ IterSend(c)
    \/ IterDone(c)
    \/ IterRaise(c)
    \/ ReceiveDisconnect(c)

\* The event loop runs its ready tasks in turn: a task that is ready again and
\* again is run.  An awaited send_json is taken to return or raise.
Fairness == \A c \in Endpoints : SF_vars(Resume(c))

\* The server under the event loop's scheduling.
SpecFair == Spec /\ Fairness

\* Every connection is served by an endpoint, all of them clients of room 1
\* under identity 1, whose sends succeed and whose channels stay open until a
\* receive loop fails: the least that lets a room of three change while a
\* broadcast to it is suspended.
NextOneRoom ==
    \/ \E c \in Conns : Accept(c, 1, 1)
    \/ \E c \in Conns : Register(c) /\ lastSend'.ok
    \/ \E c \in Conns : Join(c)
    \/ \E c \in Conns : ReceiveMessage(c)
    \/ \E c \in Conns : ReceiveError(c)
    \/ \E c \in Conns : IterSkip(c)
    \/ \E c \in Conns : IterSend(c) /\ lastSend'.ok
    \/ \E c \in Conns : IterDone(c)
    \/ \E c \in Conns : IterRaise(c)

\* The server with one room.
SpecOneRoom == Init /\ [][NextOneRoom]_vars

----------------------------------------------------------------------------
(* A direct caller of the manager: it awaits each call before the next, and *)
(* no endpoint task runs, so nothing changes the registry during a call.    *)

Idle == running = None /\ pc[Caller] = "ready"

\* await manager.connect(websocket, room_name, user_identity); accept succeeds
\* once per websocket.
ApiConnect(c, room_name, user_identity) ==
    /\ Idle /\ path[c] = NoPath
    /\ InOrder(c, room_name, user_identity)
    /\ path' = [path EXCEPT ![c] = [room |-> room_name, user |-> user_identity]]
    /\ connect(Caller, c, room_name, user_identity)
    /\ lastCall' = [NoCall EXCEPT !.by = Caller, !.op = "connect", !.ws = c,
                                  !.room = room_name, !.user = user_identity]
    /\ UNCHANGED <<pc, running, cause>>
    /\ UNCHANGED <<closed, seq>>
    /\ UNCHANGED <<voiceVars, tutorVars>>

\* manager.disconnect(websocket, room_name, user_identity), with the triple the
\* connection was connected with; it may be called again for the same triple.
ApiDisconnect(c) ==
    /\ Idle /\ path[c] # NoPath
    /\ disconnect(c, path[c].room, path[c].user)
    /\ frame' = Track(frame, active_connections, active_connections', {})
    /\ cause' = [cause EXCEPT ![c] = "caller"]
    /\ lastSend' = NoSend
    /\ lastCall' = [NoCall EXCEPT !.by = Caller, !.op = "disconnect", !.ws = c,
                                  !.room = path[c].room, !.user = path[c].user,
                                  !.again = (lastCall.op = "disconnect"
                                             /\ lastCall.ws = c)]
    /\ UNCHANGED <<path, pc, running>>
    /\ UNCHANGED <<closed, seq>>
    /\ UNCHANGED <<voiceVars, tutorVars>>

\* send_to_user, lines 68-71.
send_to_user(t, user_identity, msg) ==
    IF Has(user_connections, user_identity)
    THEN /\ send_personal_message(t, msg, NoBody, user_connections[user_identity])
         /\ lastCall' = [NoCall EXCEPT !.by = t, !.op = "user", !.msg = msg,
                                       !.user = user_identity, !.n = 1,
                                       !.sent = {user_connections[user_identity]}]
    ELSE /\ lastSend' = NoSend
         /\ lastCall' = [NoCall EXCEPT !.by = t, !.op = "user", !.msg = msg,
                                       !.user = user_identity, !.n = 0]

\* await manager.send_to_user(user_identity, message)
ApiSendToUser(user_identity) ==
    /\ Idle
    /\ send_to_user(Caller, user_identity, "agent_response")
    /\ UNCHANGED <<active_connections, user_connections, path, pc, frame, running,
                   cause>>
    /\ UNCHANGED <<closed, seq>>
    /\ UNCHANGED <<voiceVars, tutorVars>>

\* await manager.broadcast_to_room(room_name, message, exclude)
ApiBroadcastRoom(room_name, exclude) ==
    /\ Idle
    /\ broadcast_to_room(Caller, active_connections, frame, room_name,
                         "room_update", NoBody, exclude, "api")
    /\ lastSend' = NoSend
    /\ UNCHANGED <<active_connections, user_connections, path, cause>>
    /\ UNCHANGED <<closed, seq>>
    /\ UNCHANGED <<voiceVars, tutorVars>>

\* broadcast_all, line 97: the iterator over the rooms' sets.
broadcast_all(t, msg) ==
    /\ frame' = [frame EXCEPT ![t] =
                    [NoFrame EXCEPT !.op = "all", !.ctx = "api", !.msg = msg,
                                    !.n = 0,
                                    !.rtodo = DOMAIN active_connections,
                                    !.dused = Cardinality(DOMAIN active_connections)]]
    /\ pc' = [pc EXCEPT ![t] = "rooms"]
    /\ running' = t

\* await manager.broadcast_all(message)
ApiBroadcastAll ==
    /\ Idle
    /\ broadcast_all(Caller, "room_update")
    /\ lastSend' = NoSend /\ lastCall' = NoCall
    /\ UNCHANGED <<active_connections, user_connections, path, cause>>
    /\ UNCHANGED <<closed, seq>>
    /\ UNCHANGED <<voiceVars, tutorVars>>

\* broadcast_all, lines 97-98: the next room's set and its iterator, or the
\* return when no room is left; a dictionary that changed size raises.
NextRoom(t) ==
    /\ CanRun(t) /\ pc[t] = "rooms"
    /\ lastSend' = NoSend
    /\ IF Cardinality(DOMAIN active_connections) # frame[t].dused
       THEN /\ frame' = [frame EXCEPT ![t] = NoFrame]
            /\ lastCall' = CallOf(t, frame[t], "RuntimeError")
            /\ pc' = [pc EXCEPT ![t] = "ready"]
            /\ running' = None
       ELSE IF frame[t].rtodo = {}
       THEN /\ frame' = [frame EXCEPT ![t] = NoFrame]
            /\ lastCall' = CallOf(t, frame[t], "none")
            /\ pc' = [pc EXCEPT ![t] = "ready"]
            /\ running' = None
       ELSE \E r \in frame[t].rtodo :
            /\ frame' = [frame EXCEPT ![t] =
                  [@ EXCEPT !.rtodo = @ \ {r}, !.room = r, !.live = TRUE,
                            !.used = Cardinality(active_connections[r]),
                            !.todo = active_connections[r],
                            !.start = @ \cup active_connections[r]]]
            /\ lastCall' = NoCall
            /\ pc' = [pc EXCEPT ![t] = "iter"]
            /\ running' = t
    /\ UNCHANGED <<active_connections, user_connections, path, cause>>
    /\ UNCHANGED <<closed, seq>>
    /\ UNCHANGED <<voiceVars, tutorVars>>

\* broadcast_all, line 98: the inner loop is over; nothing is cleaned up.
IterEndRoom(t) ==
    /\ CanRun(t) /\ pc[t] = "iter"
    /\ frame[t].op = "all"
    /\ ~SetChanged(frame[t])
    /\ frame[t].todo = {}
    /\ frame' = [frame EXCEPT ![t].live = FALSE]
    /\ pc' = [pc EXCEPT ![t] = "rooms"]
    /\ running' = t
    /\ lastSend' = NoSend /\ lastCall' = NoCall
    /\ UNCHANGED <<active_connections, user_connections, path, cause>>
    /\ UNCHANGED <<closed, seq>>
    /\ UNCHANGED <<voiceVars, tutorVars>>

NextApi ==
    \/ \E c \in Conns, r \in Rooms, u \in Users : ApiConnect(c, r, u)
    \/ \E c \in Conns : ApiDisconnect(c)
    \/ \E u \in Users : ApiSendToUser(u)
    \/ \E r \in Rooms, x \in Conns \cup {None} : ApiBroadcastRoom(r, x)
    \/ ApiBroadcastAll
    \/ NextRoom(Caller)
    \/ IterEndRoom(Caller)
    \/ IterSkip(Caller)
    \/ IterSend(Caller)
    \/ IterDone(Caller)

\* The manager under one caller.
SpecApi == Init /\ [][NextApi]_vars

----------------------------------------------------------------------------
(* The claims *)

Members(r) == IF Has(active_connections, r) THEN active_connections[r] ELSE {}

\* C1: under one caller (no concurrent connect or disconnect), when
\* broadcast_to_room(r, msg, exclude) has returned, r's member set is its
\* member set at the call minus exactly the connections whose send failed, none
\* of which is the excluded connection.
C1_BroadcastRemovesExactlyFailed ==
    lastCall.op = "room" =>
        /\ lastCall.raised = "none"
        /\ lastCall.failed \subseteq lastCall.sent
        /\ lastCall.excl \notin lastCall.failed
        /\ Members(lastCall.room) = lastCall.start \ lastCall.failed
        /\ get_room_participants(lastCall.room)
               = Cardinality(lastCall.start \ lastCall.failed)

\* Room {c1, c2}, c1 excluded, the send to c2 failed: one participant is left.
C1_Witness ==
    /\ lastCall.op = "room"
    /\ Cardinality(lastCall.start) = 2
    /\ lastCall.excl \in lastCall.start
    /\ lastCall.failed = lastCall.start \ {lastCall.excl}
    /\ get_room_participants(lastCall.room) = 1

\* C2: a broadcast never issues a send to its excluded connection, whatever
\* the other connections' tasks do between its sends.
C2_ExcludedNeverSent ==
    /\ lastSend.via = "broadcast_to_room" => lastSend.to # lastSend.excl
    /\ \A t \in Tasks : frame[t].op = "room" => frame[t].excl \notin frame[t].sent
    /\ lastCall.op = "room" => lastCall.excl \notin lastCall.sent

\* A broadcast whose excluded connection is a member of the room has sent to
\* another member.
C2_Witness ==
    /\ lastSend.via = "broadcast_to_room"
    /\ lastSend.excl \in Members(frame[lastSend.by].room)
    /\ lastSend.to \in Members(frame[lastSend.by].room)

\* C3: broadcast_to_room never raises to its caller, also when another task
\* changes the registry while it awaits a send.
C3_BroadcastNeverRaises == lastCall.raised = "none"

\* C4: a connection's broadcast raises only after a change of its own
\* membership, never after another connection's join, disconnect or failed
\* send, and no endpoint task ends with an unhandled error.
C4_FailureIsolated ==
    /\ lastCall.raised # "none" => lastCall.changed \subseteq {lastCall.by}
    /\ \A c \in Endpoints : pc[c] # "crashed"

\* C5: disconnect(c, r, u) leaves the identity index entry of u alone when it
\* points at another connection than c.
C5_DisconnectKeepsOthersIdentity ==
    [][lastCall'.op = "disconnect" =>
          \A u \in DOMAIN user_connections :
              user_connections[u] # lastCall'.ws =>
                  /\ Has(user_connections', u)
                  /\ user_connections'[u] = user_connections[u]]_vars

\* C6: every room of get_all_rooms has at least one participant.
C6_NoEmptyRoom ==
    \A r \in get_all_rooms : get_room_participants(r) >= 1

\* The connection most recently connected for an identity; connections are
\* numbered in the order of their connect.
Latest(u) ==
    CHOOSE c \in Conns :
        /\ path[c].user = u
        /\ \A d \in Conns : path[d].user = u => d <= c

\* C7: connect leaves the identity index pointing at the connection it
\* registered; send_to_user(u) issues exactly one send, to the connection most
\* recently connected for u, as long as disconnect was not called for u.
C7_LastWriterWins ==
    /\ lastCall.op = "connect" =>
           /\ Has(user_connections, lastCall.user)
           /\ user_connections[lastCall.user] = lastCall.ws
    /\ (/\ lastCall.op = "user"
        /\ \E c \in Conns : path[c].user = lastCall.user
        /\ \A c \in Conns : path[c].user = lastCall.user => cause[c] = "none")
       => /\ lastCall.n = 1
          /\ lastCall.sent = {Latest(lastCall.user)}
          /\ lastSend.via = "send_personal_message"
          /\ lastSend.to = Latest(lastCall.user)

\* Two connections are registered for one identity, both still members of a
\* room, and send_to_user has sent to the second.
C7_Witness ==
    /\ lastCall.op = "user"
    /\ \E c1, c2 \in Conns :
        /\ c1 < c2
        /\ path[c1].user = lastCall.user /\ path[c2].user = lastCall.user
        /\ c1 \in Members(path[c1].room) /\ c2 \in Members(path[c2].room)
        /\ cause[c1] = "none" /\ cause[c2] = "none"
        /\ lastSend.to = c2 /\ lastCall.n = 1

\* C8: disconnect of a room's only member leaves the room with no participant
\* and out of get_all_rooms, and a room entry is deleted exactly when
\* disconnect removes its last member.
C8_RoomDeletedIffLastLeaves ==
    [][\A r \in Rooms :
          /\ (lastCall'.op = "disconnect" /\ lastCall'.room = r
                  /\ Members(r) = {lastCall'.ws})
              => (get_room_participants(r)' = 0 /\ r \notin get_all_rooms')
          /\ (r \in get_all_rooms /\ r \notin get_all_rooms')
              <=> (lastCall'.op = "disconnect" /\ lastCall'.room = r
                      /\ Members(r) = {lastCall'.ws})]_vars

\* C9: a disconnect that follows a disconnect of the same connection, room and
\* identity changes neither the room membership map nor the identity index.
C9_DisconnectIdempotent ==
    [][(lastCall'.op = "disconnect" /\ lastCall'.again)
          => /\ active_connections' = active_connections
             /\ user_connections' = user_connections]_vars

\* disconnect was called twice in a row for a connection that had been a member.
C9_Witness ==
    /\ lastCall.op = "disconnect" /\ lastCall.again
    /\ active_connections # << >>

\* C10: under one caller, no method of the manager raises, whatever sends
\* fail: after a failed send the caller is at its next call or in the rest of
\* its broadcast, and a broadcast that returns has issued exactly one send to
\* every member but the excluded one, the members after a failed send included.
C10_FailedSendDoesNotAbort ==
    /\ lastCall.raised = "none"
    /\ ~lastSend.ok => pc[lastSend.by] \in {"ready", "iter"}
    /\ lastCall.op \in {"room", "all"} =>
           /\ lastCall.sent = lastCall.start \ {lastCall.excl}
           /\ lastCall.n = Cardinality(lastCall.sent)

\* A broadcast issues a send after an earlier send of it has failed.
C10_Witness ==
    /\ lastSend.via \in {"broadcast_to_room", "broadcast_all"}
    /\ frame[lastSend.by].failed \ {lastSend.to} # {}

\* C11: when broadcast_all has returned, every connection whose send failed
\* has been removed from its room's member set, as after broadcast_to_room.
C11_BroadcastAllCleansUp ==
    lastCall.op = "all" =>
        \A c \in lastCall.failed : \A r \in Rooms : c \notin Members(r)

\* C12: when a connection's endpoint has gone through its disconnect path,
\* after a peer disconnect or after another error of its loop, it has
\* broadcast a user_left event with the connection's identity to every member
\* left in the room, the connection itself removed before.
C12_LeaveIsAnnounced ==
    [][\A c \in Endpoints :
          (pc[c] \notin {"done", "crashed"} /\ pc'[c] \in {"done", "crashed"}) =>
              /\ lastCall'.by = c
              /\ lastCall'.op = "room" /\ lastCall'.msg = "user_left"
              /\ lastCall'.raised = "none"
              /\ lastCall'.body.user = path[c].user
              /\ c \notin lastCall'.start
              /\ lastCall'.sent = lastCall'.start]_vars

\* The members a broadcast found in the room that are members still and were
\* not sent its message, its excluded connection aside.
Missed(call) == ((call.start \cap Members(call.room)) \ {call.excl}) \ call.sent

\* C13: when the user_joined broadcast of a connection's endpoint is over, the
\* event has been sent to every other member of the room and not to the
\* joiner, and its participants field is the size of the room's member set at
\* the call.
C13_JoinIsAnnounced ==
    (lastCall.op = "room" /\ lastCall.msg = "user_joined") =>
        /\ lastCall.excl = lastCall.by
        /\ lastCall.by \notin lastCall.sent
        /\ Missed(lastCall) = {}
        /\ lastCall.body.user = path[lastCall.by].user
        /\ lastCall.body.participants = Cardinality(lastCall.start)

\* C14: when the broadcast of an inbound message of connection s is over, the
\* message event has been sent once to every other member of the room and not
\* to s.
C14_MessageToOthersOnce ==
    (lastCall.op = "room" /\ lastCall.msg = "message") =>
        /\ lastCall.excl = lastCall.by
        /\ lastCall.by \notin lastCall.sent
        /\ Missed(lastCall) = {}
        /\ lastCall.n = Cardinality(lastCall.sent)

\* C15: handling an inbound ping of connection c issues one send, a pong to c,
\* starts no broadcast and leaves both dictionaries as they are; handling an
\* inbound message of a type that is not recognised issues no send.
C15_PingPongOnly ==
    [][lastCall'.op = "handle" =>
          /\ active_connections' = active_connections
          /\ user_connections' = user_connections
          /\ frame' = frame
          /\ pc'[lastCall'.ws] = "recv"
          /\ lastCall'.msg = "ping" =>
                 /\ lastSend'.by = lastCall'.ws
                 /\ lastSend'.to = lastCall'.ws
                 /\ lastSend'.msg = "pong"
                 /\ lastSend'.via = "send_personal_message"
          /\ lastCall'.msg # "ping" => lastSend' = NoSend]_vars

\* A ping of a connection that shares its room with another has been answered.
C15_Witness ==
    /\ lastCall.op = "handle" /\ lastCall.msg = "ping"
    /\ lastSend.to = lastCall.ws /\ lastSend.msg = "pong"
    /\ Cardinality(Members(lastCall.room)) = 2

\* C17: a message event is sent only while its inbound message is the one its
\* sender's task handled last: every send of m1 is issued before the task
\* takes m2, so a recipient of both is sent m1 first, whatever broadcasts of
\* other connections run in between.
C17_SendsInOrder ==
    /\ lastSend.msg = "message" => lastSend.body.id = seq[lastSend.by]
    /\ \A c \in Conns : frame[c].msg = "message" => frame[c].body.id = seq[c]

\* A connection's second message is sent while another connection's broadcast
\* is in progress.
C17_Witness ==
    /\ lastSend.msg = "message"
    /\ lastSend.body.id = 0
    /\ \E c \in Conns \ {lastSend.by} : frame[c].op = "room"

\* The connections that have been registered (lines 27-32 have run for them).
Registered(c) ==
    /\ path[c] # NoPath
    /\ pc[c] \notin {"idle", "connect"} \/ cause[c] # "none"

\* C16: under fair scheduling, a registered connection whose channel is closed
\* while it is a member of its room is eventually no member of it, removed by
\* the disconnect of its endpoint.
C16_ClosedIsRemoved ==
    \A c \in Endpoints :
        (c \in closed /\ c \in Members(path[c].room))
            ~> (c \notin Members(path[c].room) /\ cause[c] # "none")

\* A closed connection's receive has raised and its endpoint has disconnected it.
C16_Witness ==
    \E c \in Endpoints :
        /\ c \in closed
        /\ cause[c] = "WebSocketDisconnect"
        /\ c \notin Members(path[c].room)

\* The connection is a member of some room.
InAnyRoom(c) == \E r \in DOMAIN active_connections : c \in active_connections[r]

\* C18: a registered connection that is no member of a room (removed by
\* disconnect, after a failed receive, or by the lazy cleanup after a failed
\* send) is a member of no room ever after.
C18_DisconnectedIsTerminal ==
    [][\A c \in Conns :
          (Registered(c) /\ ~InAnyRoom(c)) => ~InAnyRoom(c)']_vars

\* A connection was removed by the lazy cleanup of another connection's
\* broadcast while its own task is still in its receive loop.
C18_Witness ==
    \E c \in Conns :
        /\ Registered(c) /\ ~InAnyRoom(c)
        /\ cause[c] = "none" /\ pc[c] = "recv"

\* C19: no connection is a member of two rooms.
C19_AtMostOneRoom ==
    \A c \in Conns :
        Cardinality({r \in DOMAIN active_connections :
                        c \in active_connections[r]}) <= 1

\* Two rooms have a member each.
C19_Witness ==
    \E r1, r2 \in DOMAIN active_connections :
        r1 # r2 /\ active_connections[r1] # {} /\ active_connections[r2] # {}

\* C20: connect(c, r, u) issues one send, the welcome (type connection,
\* status connected, room r) to c, and c is a member of r and the entry of u
\* in the identity index when it is sent.
C20_WelcomeToNewOnly ==
    lastCall.op = "connect" =>
        /\ lastSend.by = lastCall.by
        /\ lastSend.to = lastCall.ws
        /\ lastSend.via = "send_personal_message"
        /\ lastSend.msg = "connection"
        /\ lastSend.body = [NoBody EXCEPT !.status = "connected",
                                          !.room = lastCall.room]
        /\ lastCall.ws \in Members(lastCall.room)
        /\ Has(user_connections, lastCall.user)
        /\ user_connections[lastCall.user] = lastCall.ws

\* A connection has joined a room that had a member, under an identity that
\* had a connection, and has been sent its welcome.
C20_Witness ==
    /\ lastCall.op = "connect"
    /\ lastSend.to = lastCall.ws
    /\ Cardinality(Members(lastCall.room)) >= 2
    /\ \E c \in Conns \ {lastCall.ws} : path[c].user = lastCall.user

-----------------------------------------------------------------------------
(* The caller of the command system *)

\* The caller's transcript grows by a symbol.
Type(sym) ==
    /\ Len(text) < MaxLen
    /\ text' = Append(text, sym)
    /\ recognized' = NoMatch /\ result' = NoResult /\ invoked' = NoInvoke
    /\ UNCHANGED <<commands, managerVars, tutorVars>>

\* The caller's transcript is a whole sentence.
Say(scenario) ==
    /\ text = << >>
    /\ text' = scenario
    /\ recognized' = NoMatch /\ result' = NoResult /\ invoked' = NoInvoke
    /\ UNCHANGED <<commands, managerVars, tutorVars>>

\* voice_commands.recognize_command(text)
Recognize ==
    /\ recognized' = recognize_command(commands, text)
    /\ invoked' = [NoInvoke EXCEPT !.op = "recognize_command",
                                   !.mutated = invoked.mutated]
    /\ result' = NoResult
    /\ UNCHANGED <<commands, text, managerVars, tutorVars>>

\* voice_commands.execute_command(command_name, context), of what was
\* recognised in the transcript or, without a transcript, of any name; the
\* transcript is dealt with.
Execute(command_name, context) ==
    /\ IF text = << >> THEN TRUE
       ELSE invoked.op = "recognize_command" /\ command_name = recognized
    /\ result' = execute_command(commands, command_name, context)
    /\ invoked' = [op |-> "execute_command", command_name |-> command_name,
                   context |-> context, mutated |-> invoked.mutated]
    /\ text' = << >> /\ recognized' = NoMatch
    /\ UNCHANGED <<commands, managerVars, tutorVars>>

\* The caller writes into the dictionary it was returned.
Mutate(key) ==
    /\ invoked.op = "execute_command"
    /\ key \in DOMAIN result
    /\ result' = [result EXCEPT ![key] = "overwritten"]
    /\ invoked' = [invoked EXCEPT !.op = "mutate", !.mutated = TRUE]
    /\ UNCHANGED <<commands, text, recognized, managerVars, tutorVars>>

NextVoice ==
    \/ \E sym \in Vocabulary : Type(sym)
    \/ \E scenario \in Scenarios : Say(scenario)
    \/ Recognize
    \/ \E command_name \in ExecNames, context \in Contexts :
           Execute(command_name, context)
    \/ \E key \in {"action", "params", "success"} : Mutate(key)

SpecVoice == Init /\ [][NextVoice]_vars

-----------------------------------------------------------------------------
(* Claims about the command system *)

\* The transcript as recognize_command searches it.
Searched == strip(lower(text))

\* C21: recognize_command returns the first command, in the order of the
\* catalog, one of whose patterns matches the trimmed, case-folded text; it
\* returns None exactly when no pattern of any command matches.
C21_FirstInCatalogOrder ==
    invoked.op = "recognize_command" =>
        LET hits == Hits(commands, Searched)
        IN  /\ (recognized = NoMatch) <=> (hits = {})
            /\ hits # {} =>
                   \E i \in hits : /\ \A k \in hits : i <= k
                                   /\ recognized = commands[i]

\* Two commands match "end session stop"; pause, defined first, is returned
\* although end_session is found earlier in the text.
C21_Witness ==
    /\ invoked.op = "recognize_command"
    /\ text = <<"end", SP, "session", SP, "stop">>
    /\ Cardinality(Hits(commands, Searched)) = 2
    /\ recognized = "pause"

\* C22: execute_command returns success false exactly for the names that are
\* no catalog entry, and then {success: false, error: "Unknown command:
\* <name>"}; for a catalog name it returns success true and echoes the name.
C22_UnknownIsRefused ==
    invoked.op = "execute_command" =>
        LET name == invoked.command_name
        IN  /\ (result.success = FALSE) <=> (name \notin Names(commands))
            /\ name \notin Names(commands) =>
                   result = [success |-> FALSE,
                             error |-> <<"Unknown command: ", name>>]
            /\ name \in Names(commands) =>
                   "command" \in DOMAIN result /\ result.command = name

C22_Witness ==
    /\ invoked.op = "execute_command"
    /\ invoked.command_name = "nonexistent_command"
    /\ invoked.context = [given |-> TRUE, items |-> {}]
    /\ result = [success |-> FALSE,
                 error |-> <<"Unknown command: ", "nonexistent_command">>]

SlowDownPlease == <<"Can", SP, "you", SP, "slow", SP, "down", SP, "please", QM>>

\* C23: "Can you slow down please?" is recognised as slow_down, no earlier
\* entry of the catalog matching it, and execute_command("slow_down", {})
\* returns exactly {action: adjust_pace, params: {slower: true}, response:
\* "Slowing down...", success: true, command: slow_down}.
C23_SlowDownScenario ==
    /\ invoked.op = "recognize_command" /\ text = SlowDownPlease =>
           /\ recognized = "slow_down"
           /\ \A i \in Hits(commands, Searched) :
                  \A k \in DOMAIN commands :
                      commands[k] = "slow_down" => k <= i
    /\ /\ invoked.op = "execute_command"
       /\ invoked.command_name = "slow_down"
       /\ invoked.context = [given |-> TRUE, items |-> {}]
       => result = [action |-> "adjust_pace", params |-> [slower |-> TRUE],
                    response |-> "Slowing down...", success |-> TRUE,
                    command |-> "slow_down"]

C23_Witness ==
    /\ invoked.op = "recognize_command" /\ text = SlowDownPlease
    /\ recognized = "slow_down"

C25_MappedIsCatalogued ==
    /\ DOMAIN actions \subseteq Names(commands)
    /\ invoked.op = "execute_command" /\ result.success =>
           invoked.command_name \in Names(commands)

C25_Witness ==
    /\ invoked.op = "execute_command"
    /\ invoked.command_name \in DOMAIN actions
    /\ result.success
    /\ result.action = actions[invoked.command_name].action

-----------------------------------------------------------------------------
(* The tools of the tutor agent; none awaits, each runs to its end. *)

\* Lines 41-57; a Subtopic is a dataclass instance and never falsy.
move_to_next_subtopic(subtopic) ==
    /\ Len(moves) < MaxMoves
    /\ topics_covered' =
           IF current_subtopic # << >>
           THEN Append(topics_covered, current_subtopic[1].subtopic)
           ELSE topics_covered
    /\ current_subtopic' = <<Subtopic(subtopic)>>
    /\ conversation_history' = Append(conversation_history, Moved(subtopic))
    /\ moves' = Append(moves, subtopic)
    /\ UNCHANGED <<student_understanding_score, teaching_pace, questions_asked>>
    /\ UNCHANGED <<managerVars, voiceVars>>

\* Lines 22-39: the counter; what is returned is no state.
check_understanding ==
    /\ questions_asked < MaxQuestions
    /\ questions_asked' = questions_asked + 1
    /\ UNCHANGED <<current_subtopic, conversation_history,
                   student_understanding_score, teaching_pace, topics_covered,
                   moves>>
    /\ UNCHANGED <<managerVars, voiceVars>>

\* Lines 75-87: the score moves by a tenth within 0..1.
adjust_pace(slower) ==
    /\ teaching_pace' = IF slower THEN "slow" ELSE "fast"
    /\ student_understanding_score' =
           IF slower
           THEN IF student_understanding_score = 0 THEN 0
                ELSE student_understanding_score - 1
           ELSE IF student_understanding_score = FullScore THEN FullScore
                ELSE student_understanding_score + 1
    /\ UNCHANGED <<current_subtopic, conversation_history, topics_covered,
                   questions_asked, moves>>
    /\ UNCHANGED <<managerVars, voiceVars>>

NextTutor ==
    \/ \E subtopic \in Subtopics : move_to_next_subtopic(subtopic)
    \/ check_understanding
    \/ \E slower \in BOOLEAN : adjust_pace(slower)

SpecTutor == Init /\ [][NextTutor]_vars

-----------------------------------------------------------------------------
(* Claims about the tutor agent *)

\* C26: every call move_to_next_subtopic(s) appends one entry naming s to
\* conversation_history, so that after n calls the history has n entries in
\* the order of the calls, and sets current_subtopic to s; has_subtopic() is
\* false in the initial state and true after at least one call.
C26_HistoryFollowsMoves ==
    /\ Len(conversation_history) = Len(moves)
    /\ \A i \in DOMAIN moves :
           conversation_history[i] = <<"Moved to subtopic: ", moves[i]>>
    /\ moves # << >> =>
           /\ Len(current_subtopic) = 1
           /\ current_subtopic[1].subtopic = moves[Len(moves)]
    /\ has_subtopic(current_subtopic) <=> (moves # << >>)

\* Three calls, the second with the empty string, with other tools called
\* between them.
C26_Witness ==
    /\ moves = <<"Topic 1", "", "Topic 2">>
    /\ topics_covered = <<"Topic 1", "">>
    /\ questions_asked > 0 /\ teaching_pace = "slow"
    /\ has_subtopic(current_subtopic)

-----------------------------------------------------------------------------
(* Claims about the rooms and the registry *)

\* C27: a send of broadcast_to_room for room r, the fan-out of a message
\* included, goes to a connection that is in r's member set when the send is
\* issued, never to a member of another room only.
C27_SendsStayInRoom ==
    lastSend.via = "broadcast_to_room" =>
        lastSend.to \in Members(frame[lastSend.by].room)

\* A member of room 1 is sent a broadcast while room 2 has a member.
C27_Witness ==
    /\ lastSend.via = "broadcast_to_room"
    /\ frame[lastSend.by].room = 1
    /\ lastSend.to \in Members(1)
    /\ Members(2) # {} /\ Members(2) \cap Members(1) = {}

\* No endpoint task that registered its connection is still running.
Quiescent == \A c \in Endpoints : pc[c] \in {"idle", "connect", "done", "crashed"}

\* C28: once every endpoint task that registered a connection has ended, the
\* room membership map and the identity index are empty.
C28_NoLeakAtQuiescence ==
    Quiescent => (active_connections = << >> /\ user_connections = << >>)

\* Two connections of one room and one identity, the second overwriting the
\* first in the index; both tasks have ended, one on a closed channel and one
\* by an error of its broadcast.
C28_Witness ==
    /\ \A c \in Endpoints : pc[c] \in {"done", "crashed"}
    /\ path[1] = path[2]
    /\ \E c \in Endpoints : cause[c] = "WebSocketDisconnect"
    /\ \E c \in Endpoints : cause[c] = "broadcast_error"

\* C29: every connection the identity index refers to is a member of some
\* room; a connection removed from its room by the lazy cleanup is not the
\* target of send_to_user any more.
C29_IndexedIsMember ==
    \A u \in DOMAIN user_connections : InAnyRoom(user_connections[u])

\* C30: a message event is sent to the members of room r only for a sender
\* that is in r's member set at that moment.
C30_SenderIsMember ==
    (lastSend.via = "broadcast_to_room" /\ lastSend.msg = "message") =>
        lastSend.by \in Members(frame[lastSend.by].room)

====
